---- MODULE Spec2Model ----
(***************************************************************************)
(* Model of gimp_mcp/server.py: the GimpConnection transport, the          *)
(* process-wide cached connection, the generic dispatcher call_api and the *)
(* convenience tools built from it.                                        *)
(*                                                                         *)
(* Python strings are sequences of one-character strings, so that          *)
(* concatenation, the prefix "Error: " and the substring test              *)
(* `"Error" in s` are computed, not assumed.  JSON values are tagged       *)
(* tuples: <<"null">>, <<"int", n>>, <<"str", chars>>, <<"list", items>>,  *)
(* <<"obj", pairs>> with pairs a sequence of <<key chars, value>>.         *)
(***************************************************************************)
EXTENDS Integers, Sequences, FiniteSets, TLC

(* ------------------------------ bounds -------------------------------- *)

\* Total number of call_api invocations in one run.
MaxCalls == 5

(* ------------------------- string literals ---------------------------- *)

ErrorPrefix ==
    <<"E","r","r","o","r",":"," ">>

FailureMarker ==
    <<"E","r","r","o","r">>

LowerMarker ==
    <<"e","r","r","o","r">>

MsgCouldNotConnect ==
    <<"C","o","u","l","d"," ","n","o","t"," ","c","o","n","n","e","c","t"," ","t","o"," ","G","I","M","P","."," ","E","n","s","u","r","e"," ","t","h","e"," ","M","C","P"," ","S","e","r","v","e","r"," ","p","l","u","g","i","n"," ","i","s"," ","r","u","n","n","i","n","g",".">>

CommPrefix ==
    <<"E","r","r","o","r"," ","c","o","m","m","u","n","i","c","a","t","i","n","g"," ","w","i","t","h"," ","G","I","M","P",":"," ">>

MsgBrokenPipe ==
    <<"[","E","r","r","n","o"," ","3","2","]"," ","B","r","o","k","e","n"," ","p","i","p","e">>

MsgConnReset ==
    <<"[","E","r","r","n","o"," ","1","0","4","]"," ","C","o","n","n","e","c","t","i","o","n"," ","r","e","s","e","t"," ","b","y"," ","p","e","e","r">>

MsgExpectingValue ==
    <<"E","x","p","e","c","t","i","n","g"," ","v","a","l","u","e",":"," ","l","i","n","e"," ","1"," ","c","o","l","u","m","n"," ","1"," ","(","c","h","a","r"," ","0",")">>

MsgNoneSendall ==
    <<"'","N","o","n","e","T","y","p","e","'"," ","o","b","j","e","c","t"," ","h","a","s"," ","n","o"," ","a","t","t","r","i","b","u","t","e"," ","'","s","e","n","d","a","l","l","'">>

MsgNoneRecv ==
    <<"'","N","o","n","e","T","y","p","e","'"," ","o","b","j","e","c","t"," ","h","a","s"," ","n","o"," ","a","t","t","r","i","b","u","t","e"," ","'","r","e","c","v","'">>

MsgNoneSubscript ==
    <<"'","N","o","n","e","T","y","p","e","'"," ","o","b","j","e","c","t"," ","i","s"," ","n","o","t"," ","s","u","b","s","c","r","i","p","t","a","b","l","e">>

MsgIntSubscript ==
    <<"'","i","n","t","'"," ","o","b","j","e","c","t"," ","i","s"," ","n","o","t"," ","s","u","b","s","c","r","i","p","t","a","b","l","e">>

MsgFloatSubscript ==
    <<"'","f","l","o","a","t","'"," ","o","b","j","e","c","t"," ","i","s"," ","n","o","t"," ","s","u","b","s","c","r","i","p","t","a","b","l","e">>

MsgListIndices ==
    <<"l","i","s","t"," ","i","n","d","i","c","e","s"," ","m","u","s","t"," ","b","e"," ","i","n","t","e","g","e","r","s"," ","o","r"," ","s","l","i","c","e","s",","," ","n","o","t"," ","s","t","r">>

MsgStrIndices ==
    <<"s","t","r","i","n","g"," ","i","n","d","i","c","e","s"," ","m","u","s","t"," ","b","e"," ","i","n","t","e","g","e","r","s",","," ","n","o","t"," ","'","s","t","r","'">>

BlurSuccessMessage ==
    <<"A","p","p","l","i","e","d"," ","G","a","u","s","s","i","a","n"," ","b","l","u","r"," ","s","u","c","c","e","s","s","f","u","l","l","y">>

K_id ==
    <<"i","d">>

K_name ==
    <<"n","a","m","e">>

K_status ==
    <<"s","t","a","t","u","s">>

K_result ==
    <<"r","e","s","u","l","t">>

K_error ==
    <<"e","r","r","o","r">>

K_width ==
    <<"w","i","d","t","h">>

K_height ==
    <<"h","e","i","g","h","t">>

K_layers ==
    <<"l","a","y","e","r","s">>

S_success ==
    <<"s","u","c","c","e","s","s">>

S_error ==
    <<"e","r","r","o","r">>

S_NoSuchImage ==
    <<"n","o"," ","s","u","c","h"," ","i","m","a","g","e">>

S_ErrorLayer ==
    <<"E","r","r","o","r">>

S_untitled ==
    <<"u","n","t","i","t","l","e","d">>

(* --------------------------- Python strings --------------------------- *)

\* s.startswith(p)
StartsWith(s, p) ==
    /\ Len(p) <= Len(s)
    /\ SubSeq(s, 1, Len(p)) = p

\* `p in s` for strings: p occurs as a contiguous substring of s.
Contains(s, p) ==
    \E i \in 0..(Len(s) - Len(p)) : SubSeq(s, i + 1, i + Len(p)) = p

(* ------------------------------ JSON ---------------------------------- *)

JNull == <<"null">>

JInt(n) == <<"int", n>>

JStr(cs) == <<"str", cs>>

\* The float n.0
JFloat(n) == <<"float", n>>

JList(items) == <<"list", items>>

JObj(pairs) == <<"obj", pairs>>

Tag(v) == v[1]

DigitChar ==
    <<"0","1","2","3","4","5","6","7","8","9">>

RECURSIVE Digits(_)
\* str(n) for a natural number n
Digits(n) ==
    IF n < 10 THEN <<DigitChar[n + 1]>>
    ELSE Digits(n \div 10) \o <<DigitChar[(n % 10) + 1]>>

\* json.dumps of an int
IntText(n) ==
    IF n < 0 THEN <<"-">> \o Digits(0 - n) ELSE Digits(n)

\* The JSON string escape of one character (printable ASCII only).
EscapeChar(c) ==
    IF c = "\"" THEN <<"\\", "\"">>
    ELSE IF c = "\\" THEN <<"\\", "\\">>
    ELSE <<c>>

RECURSIVE EscapeChars(_)
EscapeChars(cs) ==
    IF cs = <<>> THEN <<>>
    ELSE EscapeChar(Head(cs)) \o EscapeChars(Tail(cs))

\* json.dumps of a str: quoted and escaped
StrText(cs) ==
    <<"\"">> \o EscapeChars(cs) \o <<"\"">>

RECURSIVE json_dumps(_)
RECURSIVE ItemsText(_)
RECURSIVE PairsText(_)
\* json.dumps(v) with the default separators (", " and ": ")
json_dumps(v) ==
    CASE Tag(v) = "null" -> <<"n","u","l","l">>
      [] Tag(v) = "int"  -> IntText(v[2])
      [] Tag(v) = "float" -> IntText(v[2]) \o <<".", "0">>
      [] Tag(v) = "str"  -> StrText(v[2])
      [] Tag(v) = "list" -> <<"[">> \o ItemsText(v[2]) \o <<"]">>
      [] Tag(v) = "obj"  -> <<"{">> \o PairsText(v[2]) \o <<"}">>

ItemsText(items) ==
    IF items = <<>> THEN <<>>
    ELSE IF Len(items) = 1 THEN json_dumps(items[1])
    ELSE json_dumps(items[1]) \o <<",", " ">> \o ItemsText(Tail(items))

PairsText(pairs) ==
    IF pairs = <<>> THEN <<>>
    ELSE LET one == StrText(pairs[1][1]) \o <<":", " ">> \o json_dumps(pairs[1][2])
         IN  IF Len(pairs) = 1 THEN one
             ELSE one \o <<",", " ">> \o PairsText(Tail(pairs))

(* ---------------------- Python values and exceptions ------------------ *)

\* The outcome of evaluating an expression: a value, or a raised exception
\* with its class and its str().
Ok(v) == [ok |-> TRUE, val |-> v, cls |-> "", msg |-> <<>>]

Raise(cls, msg) == [ok |-> FALSE, val |-> JNull, cls |-> cls, msg |-> msg]

NoExc == [cls |-> "", msg |-> <<>>]

Exc(cls, msg) == [cls |-> cls, msg |-> msg]

\* Every exception class the program can meet derives from Exception.
ExceptionClasses ==
    {"Exception", "ConnectionError", "OSError", "AttributeError", "KeyError",
     "TypeError", "JSONDecodeError"}

\* str(KeyError(key)) is repr(key)
KeyErrorText(key) == <<"'">> \o key \o <<"'">>

RECURSIVE Lookup(_, _)
\* dict lookup in a sequence of <<key, value>> pairs
Lookup(pairs, key) ==
    IF pairs = <<>> THEN Raise("KeyError", KeyErrorText(key))
    ELSE IF pairs[1][1] = key THEN Ok(pairs[1][2])
    ELSE Lookup(Tail(pairs), key)

\* v[key] for a str key, as Python evaluates it on a value decoded by json.loads
GetItem(v, key) ==
    CASE Tag(v) = "obj"  -> Lookup(v[2], key)
      [] Tag(v) = "list" -> Raise("TypeError", MsgListIndices)
      [] Tag(v) = "str"  -> Raise("TypeError", MsgStrIndices)
      [] Tag(v) = "int"  -> Raise("TypeError", MsgIntSubscript)
      [] Tag(v) = "float" -> Raise("TypeError", MsgFloatSubscript)
      [] Tag(v) = "null" -> Raise("TypeError", MsgNoneSubscript)

(* --------------------------- the remote side --------------------------- *)

\* Image identifiers a caller passes; the remote reports 1 or 2.
ImageIds == {1}

\* Blur radii a caller passes (the float r is written as the integer r).
Radii == {10}

\* Payloads the remote puts in the `result` field of a success reply.
ResultValues ==
    { JObj(<< <<K_id, JInt(1)>> >>),
      JObj(<< <<K_id, JInt(2)>> >>),
      JObj(<< <<K_id, JInt(1)>>, <<K_name, JStr(S_ErrorLayer)>> >>),
      JObj(<< <<K_name, JStr(S_untitled)>> >>),
      JNull,
      JInt(800),
      JList(<< JInt(0) >>) }

\* Payloads the remote puts in the `error` field of a non-success reply.
ErrorValues == { JStr(S_NoSuchImage) }

SuccessReply(v) == JObj(<< <<K_status, JStr(S_success)>>, <<K_result, v>> >>)

ErrorReply(e) == JObj(<< <<K_status, JStr(S_error)>>, <<K_error, e>> >>)

\* JSON values a reply can decode to: well-formed replies and malformed ones
\* (not a mapping, no `status`, `status` without the field it selects).
ReplyValues ==
    { SuccessReply(v) : v \in ResultValues }
    \cup { ErrorReply(e) : e \in ErrorValues }
    \cup { JList(<<>>),
           JObj(<< <<K_result, JInt(800)>> >>),
           JObj(<< <<K_status, JStr(S_success)>> >>),
           JObj(<< <<K_status, JStr(S_error)>> >>) }

\* What one recv(1024) yields: an OSError, bytes that are not UTF-8 JSON
\* (empty, truncated, garbage), or the bytes of a JSON value.
RecvOutcomes ==
    { [t |-> "raise", valid |-> FALSE, value |-> JNull],
      [t |-> "bytes", valid |-> FALSE, value |-> JNull] }
    \cup { [t |-> "bytes", valid |-> TRUE, value |-> v] : v \in ReplyValues }

NoBytes == [t |-> "none", valid |-> FALSE, value |-> JNull]

\* json.loads(response.decode('utf-8')) on received bytes
DecodeReply(resp) ==
    IF resp.valid THEN Ok(resp.value)
    ELSE Raise("JSONDecodeError", MsgExpectingValue)

\* json.loads(text) on a string a nested call_api returned: the value whose
\* encoding the text is; any other text is not JSON.
json_loads(text) ==
    IF \E v \in ResultValues : json_dumps(v) = text
    THEN Ok(CHOOSE v \in ResultValues : json_dumps(v) = text)
    ELSE Raise("JSONDecodeError", MsgExpectingValue)

(* ------------------------------- state --------------------------------- *)

\* Tool invocations the hosting framework has in progress.
Threads == {1, 2}

\* The sequential host: one invocation at a time, all on thread 1.
SeqThreads == {1}

None == 0

VARIABLES
    gimp_connection,  \* the global _gimp_connection: None or the id of a GimpConnection
    sock,             \* sock[c]: the field self.sock of GimpConnection c: None or a handle
    sockets,          \* sockets[h]: the socket object behind handle h: its state,
                      \* the call that opened it, the calls that sent on it or
                      \* read from it, the requests written to it in order and
                      \* the number of replies read from it
    attempts,         \* connect attempts made so far (socket.socket() calls)
    callsIssued,      \* call_api invocations started so far
    callsDone,        \* call_api invocations finished so far
    tool,             \* tool[t]: the tool invocation thread t runs
    issued,           \* issued[t]: the call_api calls that invocation has completed
    cpc,              \* cpc[t]: position of thread t inside call_api
    cur,              \* cur[t]: the call_api invocation of thread t in progress
    last              \* the tool invocation that finished last

vars ==
    <<gimp_connection, sock, sockets, attempts, callsIssued, callsDone,
      tool, issued, cpc, cur, last>>

NoTool ==
    [name |-> "none", image_id |-> 0, radius |-> 0, api_path |-> "", args |-> <<>>,
     paths |-> <<>>]

\* A request written to a socket: the call that wrote it and its api_path.
NoRequest == [id |-> None, api_path |-> ""]

\* One call_api invocation: its arguments, its locals and what it did.
\* envOk is FALSE once the environment has failed the call: socket.socket()
\* or sock.connect() failed, sendall failed on a connected socket, recv
\* failed, or the bytes received are not a well-formed success reply to a
\* request.
NoCall ==
    [id |-> 0, api_path |-> "", args |-> <<>>,
     self |-> None, ret_to |-> "", created |-> FALSE,
     connects |-> 0, sends |-> 0, scCalls |-> 0, opened |-> None, used |-> None,
     stage |-> "", resp |-> NoBytes, hasReply |-> FALSE, reply |-> JNull,
     replyTo |-> NoRequest, envOk |-> TRUE,
     exc |-> NoExc, kind |-> "", val |-> <<>>]

NoLast ==
    [name |-> "none", image_id |-> 0, radius |-> 0, api_path |-> "", args |-> <<>>,
     paths |-> <<>>, issued |-> <<>>, kind |-> "", cls |-> "", val |-> <<>>]

ClosedSocket ==
    [state |-> "closed", opener |-> 0, users |-> {}, reqs |-> <<>>, reads |-> 0]

Init ==
    /\ gimp_connection = None
    /\ sock = [c \in Threads |-> None]
    /\ sockets = <<>>
    /\ attempts = 0
    /\ callsIssued = 0
    /\ callsDone = 0
    /\ tool = [t \in Threads |-> NoTool]
    /\ issued = [t \in Threads |-> <<>>]
    /\ cpc = [t \in Threads |-> "idle"]
    /\ cur = [t \in Threads |-> NoCall]
    /\ last = NoLast

(* ------------------------ the convenience tools ------------------------ *)

\* What a tool body does next, given the call_api calls it has completed.
Call(p, a) == [op |-> "call", api_path |-> p, args |-> a, cls |-> "", val |-> <<>>]

Return(v) == [op |-> "return", api_path |-> "", args |-> <<>>, cls |-> "", val |-> v]

RaiseOut(cls, msg) ==
    [op |-> "raise", api_path |-> "", args |-> <<>>, cls |-> cls, val |-> msg]

\* A marker test that looks for "error" instead of "Error".
HasLowerMarker(s) == Contains(s, LowerMarker)

\* `"Error" in s`
HasFailureMarker(s) == Contains(s, FailureMarker)

S_plug_in_gauss ==
    <<"p","l","u","g","-","i","n","-","g","a","u","s","s">>

\* call_api exposed as a tool: one call, its string returned
call_api_tool(tl, iss) ==
    IF Len(iss) = 0 THEN Call(tl.api_path, tl.args)
    ELSE Return(iss[1].val)

\* get_images: call_api(ctx, "Gimp.get_images")
get_images(iss) ==
    IF Len(iss) = 0 THEN Call("Gimp.get_images", <<>>)
    ELSE Return(iss[1].val)

\* The api paths get_image_info calls, in its order.
ImageInfoPaths ==
    <<"Gimp.Image.get_by_id", "Gimp.Image.get_width",
      "Gimp.Image.get_height", "Gimp.Image.get_layers">>

get_image_info(image_id, iss) ==
    LET n == Len(iss) IN
    IF n = 0 THEN Call("Gimp.Image.get_by_id", <<JInt(image_id)>>)
    ELSE
      LET image == iss[1].val IN
      IF HasFailureMarker(image) THEN Return(image)
      ELSE
        LET image_obj == json_loads(image) IN
        IF ~image_obj.ok THEN RaiseOut(image_obj.cls, image_obj.msg)
        ELSE
          LET id == GetItem(image_obj.val, K_id) IN
          IF ~id.ok THEN RaiseOut(id.cls, id.msg)
          ELSE IF n = 1 THEN Call("Gimp.Image.get_width", <<id.val>>)
          ELSE IF n = 2 THEN Call("Gimp.Image.get_height", <<id.val>>)
          ELSE IF n = 3 THEN Call("Gimp.Image.get_layers", <<id.val>>)
          ELSE Return(json_dumps(JObj(<< <<K_width, JStr(iss[2].val)>>,
                                         <<K_height, JStr(iss[3].val)>>,
                                         <<K_layers, JStr(iss[4].val)>> >>)))

apply_gaussian_blur(image_id, radius, iss) ==
    LET n == Len(iss) IN
    IF n = 0 THEN Call("Gimp.Image.get_by_id", <<JInt(image_id)>>)
    ELSE
      LET image == iss[1].val IN
      IF HasFailureMarker(image) THEN Return(image)
      ELSE
        LET image_obj == json_loads(image) IN
        IF ~image_obj.ok THEN RaiseOut(image_obj.cls, image_obj.msg)
        ELSE
          LET id == GetItem(image_obj.val, K_id) IN
          IF ~id.ok THEN RaiseOut(id.cls, id.msg)
          ELSE IF n = 1 THEN Call("Gimp.Image.get_active_layer", <<id.val>>)
          ELSE
            LET drawable == iss[2].val IN
            IF HasFailureMarker(drawable) THEN Return(drawable)
            ELSE
              LET drawable_obj == json_loads(drawable) IN
              IF ~drawable_obj.ok THEN RaiseOut(drawable_obj.cls, drawable_obj.msg)
              ELSE
                LET did == GetItem(drawable_obj.val, K_id) IN
                IF ~did.ok THEN RaiseOut(did.cls, did.msg)
                ELSE IF n = 2 THEN
                  Call("Gimp.get_pdb.run_procedure",
                       <<JStr(S_plug_in_gauss), id.val, did.val,
                         JFloat(radius), JFloat(radius), JInt(0)>>)
                ELSE
                  LET result == iss[3].val IN
                  IF HasFailureMarker(result) THEN Return(result)
                  ELSE IF n = 3 THEN Call("Gimp.displays_flush", <<>>)
                  ELSE Return(BlurSuccessMessage)

\* Some of the three calls of get_image_info at lines 104-108, taken out of
\* the tool and made in the order tl.paths by one of the threads that share
\* the work: call_api(ctx, path, [id]) for each path.
info_calls(tl, iss) ==
    IF Len(iss) < Len(tl.paths)
    THEN Call(tl.paths[Len(iss) + 1], <<JInt(tl.image_id)>>)
    ELSE Return(iss[Len(iss)].val)

\* The next step of a tool body; an exception escaping a nested call_api
\* escapes the tool as well.
ToolNext(tl, iss) ==
    IF Len(iss) > 0 /\ iss[Len(iss)].kind = "raise"
    THEN RaiseOut(iss[Len(iss)].exc.cls, iss[Len(iss)].exc.msg)
    ELSE CASE tl.name = "call_api" -> call_api_tool(tl, iss)
           [] tl.name = "get_images" -> get_images(iss)
           [] tl.name = "get_image_info" -> get_image_info(tl.image_id, iss)
           [] tl.name = "apply_gaussian_blur" ->
                apply_gaussian_blur(tl.image_id, tl.radius, iss)
           [] tl.name = "info_calls" -> info_calls(tl, iss)

\* The most call_api calls one invocation of a tool can make.
ToolMaxCalls(name) ==
    CASE name = "call_api" -> 1
      [] name = "get_images" -> 1
      [] name = "get_image_info" -> 4
      [] name = "apply_gaussian_blur" -> 4

\* The invocations the framework can make.
ToolInputs ==
    { [name |-> "call_api", image_id |-> 0, radius |-> 0,
       api_path |-> "Gimp.Image.get_by_id", args |-> <<JInt(1)>>, paths |-> <<>>],
      [name |-> "get_images", image_id |-> 0, radius |-> 0,
       api_path |-> "", args |-> <<>>, paths |-> <<>>] }
    \cup { [name |-> "get_image_info", image_id |-> i, radius |-> 0,
            api_path |-> "", args |-> <<>>, paths |-> <<>>] : i \in ImageIds }
    \cup { [name |-> "apply_gaussian_blur", image_id |-> i, radius |-> r,
            api_path |-> "", args |-> <<>>, paths |-> <<>>] :
            i \in ImageIds, r \in Radii }

(* --------------------------- decisions of the code --------------------- *)

\* get_gimp_connection: `if _gimp_connection is None`
GcNeedsCreate(g) == g = None

\* connect() called on every get_gimp_connection, outside the `if`.
GcConnectsAlways(created) == TRUE

\* get_gimp_connection: connect() is called in the branch that creates the
\* connection, and only there.
GcConnects(created) == created

\* GimpConnection.connect: `if self.sock: return` (a socket object is truthy)
ConnectSkips(s) == s # None

\* GimpConnection.send_command: `if not self.sock`
ScNeedsConnect(s) == s = None

\* An except clause that leaves self.sock as it is.
SockKeptAfterError(h) == h

\* GimpConnection.send_command, line 41: `self.sock = None` in the except
\* clause.
SockAfterError(h) == None

\* An except clause that tries the exchange again instead of re-raising.
SendCommandExceptRetry == "sc_entry"

\* GimpConnection.send_command: the except clause re-raises; control goes
\* to the except clause of call_api.
SendCommandExceptTarget == "cx_except"

\* A handler that catches connection failures only.
CallApiCatchesConnectionErrorOnly(cls) == cls = "ConnectionError"

\* call_api: `except Exception`
CallApiCatches(cls) == cls \in ExceptionClasses

\* The status test with its sense inverted.
StatusIsNotSuccess(v) == v # JStr(S_success)

\* call_api: `result["status"] == "success"`
StatusIsSuccess(v) == v = JStr(S_success)

\* A body that reads the status with a default: a reply without `status`
\* counts as a success.
CallApiBodyStatusOptional(result) ==
    LET st == GetItem(result, K_status) IN
    IF ~st.ok \/ StatusIsSuccess(st.val)
    THEN LET r == GetItem(result, K_result) IN
         IF r.ok THEN Ok(json_dumps(r.val)) ELSE r
    ELSE LET e == GetItem(result, K_error) IN
         IF e.ok THEN Ok(ErrorPrefix \o json_dumps(e.val)) ELSE e

\* call_api, the statements after send_command returned `result`.
CallApiBody(result) ==
    LET st == GetItem(result, K_status) IN
    IF ~st.ok THEN st
    ELSE IF StatusIsSuccess(st.val)
    THEN LET r == GetItem(result, K_result) IN
         IF r.ok THEN Ok(json_dumps(r.val)) ELSE r
    ELSE LET e == GetItem(result, K_error) IN
         IF e.ok THEN Ok(ErrorPrefix \o json_dumps(e.val)) ELSE e

\* The stage at which a call_api invocation ended, from its reply.
ReplyStage(result) ==
    LET st == GetItem(result, K_status) IN
    IF ~CallApiBody(result).ok THEN "shape"
    ELSE IF st.val = JStr(S_success) THEN "success"
    ELSE "remote_error"

(* ------------------------------ actions -------------------------------- *)

\* Dropping the last reference to a socket object closes it.
Drop(h) ==
    IF h = None THEN sockets ELSE [sockets EXCEPT ![h] = ClosedSocket]

\* call_api hands `c` (its returned string, or the exception escaping it) to
\* the tool body that called it.  The body runs on to its next call_api; if
\* there is none it returns its string, or an exception escapes it.
FinishCall(t, c) ==
    /\ cur' = [cur EXCEPT ![t] = NoCall]
    /\ cpc' = [cpc EXCEPT ![t] = "idle"]
    /\ callsDone' = callsDone + 1
    /\ LET iss == Append(issued[t], c)
           nx == ToolNext(tool[t], iss)
       IN
       IF nx.op = "call"
       THEN /\ issued' = [issued EXCEPT ![t] = iss]
            /\ UNCHANGED <<tool, last>>
       ELSE /\ last' = [name |-> tool[t].name, image_id |-> tool[t].image_id,
                        radius |-> tool[t].radius, api_path |-> tool[t].api_path,
                        args |-> tool[t].args, paths |-> tool[t].paths,
                        issued |-> iss,
                        kind |-> nx.op, cls |-> nx.cls, val |-> nx.val]
            /\ tool' = [tool EXCEPT ![t] = NoTool]
            /\ issued' = [issued EXCEPT ![t] = <<>>]

\* The framework invokes a tool.
StartTool(t) ==
    /\ \A u \in Threads : tool[u].name = "none"
    /\ \E tl \in ToolInputs :
         /\ callsIssued + ToolMaxCalls(tl.name) <= MaxCalls
         /\ tool' = [tool EXCEPT ![t] = tl]
    /\ last' = NoLast
    /\ UNCHANGED <<gimp_connection, sock, sockets, attempts, callsIssued,
                   callsDone, issued, cpc, cur>>

\* A tool body calls call_api(ctx, api_path, args).
IssueCall(t) ==
    /\ tool[t].name # "none"
    /\ cpc[t] = "idle"
    /\ ToolNext(tool[t], issued[t]).op = "call"
    /\ LET nx == ToolNext(tool[t], issued[t]) IN
       cur' = [cur EXCEPT ![t] = [NoCall EXCEPT !.id = callsIssued + 1,
                                               !.api_path = nx.api_path,
                                               !.args = nx.args]]
    /\ callsIssued' = callsIssued + 1
    /\ cpc' = [cpc EXCEPT ![t] = "get_conn"]
    /\ UNCHANGED <<gimp_connection, sock, sockets, attempts, callsDone,
                   tool, issued, last>>

\* get_gimp_connection, line 49: the test `_gimp_connection is None`.
GetGimpConnection(t) ==
    /\ cpc[t] = "get_conn"
    /\ cpc' = [cpc EXCEPT ![t] =
                 IF GcNeedsCreate(gimp_connection) THEN "gc_create"
                 ELSE IF GcConnects(FALSE) THEN "gc_connect" ELSE "gc_return"]
    /\ UNCHANGED <<gimp_connection, sock, sockets, attempts, callsIssued,
                   callsDone, tool, issued, cur, last>>

\* get_gimp_connection, line 50: _gimp_connection = GimpConnection(); the
\* new connection has no socket.
GcCreate(t) ==
    /\ cpc[t] = "gc_create"
    /\ gimp_connection' = t
    /\ sock' = [sock EXCEPT ![t] = None]
    /\ cur' = [cur EXCEPT ![t].created = TRUE]
    /\ cpc' = [cpc EXCEPT ![t] =
                 IF GcConnects(TRUE) THEN "gc_connect" ELSE "gc_return"]
    /\ UNCHANGED <<sockets, attempts, callsIssued, callsDone, tool, issued, last>>

\* get_gimp_connection, line 51: _gimp_connection.connect()
GcConnect(t) ==
    /\ cpc[t] = "gc_connect"
    /\ cur' = [cur EXCEPT ![t].self = gimp_connection, ![t].ret_to = "gc_return"]
    /\ cpc' = [cpc EXCEPT ![t] = "connect"]
    /\ UNCHANGED <<gimp_connection, sock, sockets, attempts, callsIssued,
                   callsDone, tool, issued, last>>

\* get_gimp_connection, line 52, and the call of send_command at line 72.
GcReturn(t) ==
    /\ cpc[t] = "gc_return"
    /\ cur' = [cur EXCEPT ![t].self = gimp_connection]
    /\ cpc' = [cpc EXCEPT ![t] = "sc_entry"]
    /\ UNCHANGED <<gimp_connection, sock, sockets, attempts, callsIssued,
                   callsDone, tool, issued, last>>

\* GimpConnection.connect, lines 20-23: return if a socket is stored, else
\* create a socket object and store it.  socket.socket() can fail.
Connect(t) ==
    /\ cpc[t] = "connect"
    /\ LET c == cur[t].self IN
       IF ConnectSkips(sock[c])
       THEN /\ cpc' = [cpc EXCEPT ![t] = cur[t].ret_to]
            /\ UNCHANGED <<sock, sockets, attempts, cur>>
       ELSE /\ attempts' = attempts + 1
            /\ \/ /\ sockets' = Append(Drop(sock[c]),
                                       [state |-> "new", opener |-> cur[t].id,
                                        users |-> {}, reqs |-> <<>>,
                                        reads |-> 0])
                  /\ sock' = [sock EXCEPT ![c] = Len(sockets) + 1]
                  /\ cur' = [cur EXCEPT ![t].connects = @ + 1,
                                        ![t].opened = Len(sockets) + 1]
                  /\ cpc' = [cpc EXCEPT ![t] = "connect2"]
               \/ /\ cur' = [cur EXCEPT ![t].connects = @ + 1,
                                        ![t].stage = "connect",
                                        ![t].envOk = FALSE,
                                        ![t].exc = Exc("ConnectionError",
                                                       MsgCouldNotConnect)]
                  /\ cpc' = [cpc EXCEPT ![t] = "cx_except"]
                  /\ UNCHANGED <<sock, sockets>>
    /\ UNCHANGED <<gimp_connection, callsIssued, callsDone, tool, issued, last>>

\* GimpConnection.connect, lines 24-28: self.sock.connect((host, port)); any
\* failure is re-raised as ConnectionError and self.sock keeps the socket.
Connect2(t) ==
    /\ cpc[t] = "connect2"
    /\ LET h == sock[cur[t].self]
           fail(env) == /\ cur' = [cur EXCEPT ![t].stage = "connect",
                                              ![t].envOk = @ /\ env,
                                              ![t].exc = Exc("ConnectionError",
                                                             MsgCouldNotConnect)]
                        /\ cpc' = [cpc EXCEPT ![t] = "cx_except"]
       IN
       IF h = None \/ sockets[h].state # "new"
       THEN fail(TRUE) /\ UNCHANGED sockets
       ELSE \/ /\ sockets' = [sockets EXCEPT ![h].state = "connected"]
               /\ cpc' = [cpc EXCEPT ![t] = cur[t].ret_to]
               /\ UNCHANGED cur
            \/ /\ sockets' = [sockets EXCEPT ![h].state = "failed"]
               /\ fail(FALSE)
    /\ UNCHANGED <<gimp_connection, sock, attempts, callsIssued, callsDone,
                   tool, issued, last>>

\* GimpConnection.send_command, lines 31-33.
ScEntry(t) ==
    /\ cpc[t] = "sc_entry"
    /\ IF ScNeedsConnect(sock[cur[t].self])
       THEN /\ cur' = [cur EXCEPT ![t].scCalls = @ + 1, ![t].ret_to = "send"]
            /\ cpc' = [cpc EXCEPT ![t] = "connect"]
       ELSE /\ cur' = [cur EXCEPT ![t].scCalls = @ + 1]
            /\ cpc' = [cpc EXCEPT ![t] = "send"]
    /\ UNCHANGED <<gimp_connection, sock, sockets, attempts, callsIssued,
                   callsDone, tool, issued, last>>

\* The request call c writes: json.dumps({"api_path": ..., "args": ...}).
Request(c) == [id |-> c.id, api_path |-> c.api_path]

\* GimpConnection.send_command, line 35: self.sock.sendall(...).  It fails
\* on a socket that is not connected and can fail on a connected one.
Send(t) ==
    /\ cpc[t] = "send"
    /\ LET h == sock[cur[t].self]
           fail(cls, msg, env) ==
               /\ cur' = [cur EXCEPT ![t].sends = IF h = None THEN @ ELSE @ + 1,
                                     ![t].used = h,
                                     ![t].stage = "send",
                                     ![t].envOk = @ /\ env,
                                     ![t].exc = Exc(cls, msg)]
               /\ cpc' = [cpc EXCEPT ![t] = "sc_except"]
       IN
       IF h = None
       THEN fail("AttributeError", MsgNoneSendall, TRUE) /\ UNCHANGED sockets
       ELSE LET touched == [sockets EXCEPT ![h].users = @ \cup {cur[t].id}] IN
            IF sockets[h].state # "connected"
            THEN fail("OSError", MsgBrokenPipe, TRUE) /\ sockets' = touched
            ELSE \/ /\ cur' = [cur EXCEPT ![t].sends = @ + 1, ![t].used = h]
                    /\ cpc' = [cpc EXCEPT ![t] = "recv"]
                    /\ sockets' = [touched EXCEPT
                                     ![h].reqs = Append(@, Request(cur[t]))]
                 \/ fail("OSError", MsgBrokenPipe, FALSE) /\ sockets' = touched
    /\ UNCHANGED <<gimp_connection, sock, attempts, callsIssued, callsDone,
                   tool, issued, last>>

\* The request the next bytes read from socket s answer: the remote answers
\* the requests written to a connection in the order they were written.
NextReply(s) ==
    IF s.reads < Len(s.reqs) THEN s.reqs[s.reads + 1] ELSE NoRequest

\* Received bytes that are a well-formed success reply.
IsSuccessReply(r) ==
    r.valid /\ \E v \in ResultValues : r.value = SuccessReply(v)

\* GimpConnection.send_command, line 36: one self.sock.recv(1024).
Recv(t) ==
    /\ cpc[t] = "recv"
    /\ LET h == sock[cur[t].self] IN
       IF h = None
       THEN /\ cur' = [cur EXCEPT ![t].stage = "recv",
                                  ![t].exc = Exc("AttributeError", MsgNoneRecv)]
            /\ cpc' = [cpc EXCEPT ![t] = "sc_except"]
            /\ UNCHANGED sockets
       ELSE LET touched == [sockets EXCEPT ![h].users = @ \cup {cur[t].id}] IN
            \E r \in RecvOutcomes :
              IF r.t = "raise"
              THEN /\ cur' = [cur EXCEPT ![t].stage = "recv",
                                         ![t].envOk = FALSE,
                                         ![t].exc = Exc("OSError", MsgConnReset)]
                   /\ cpc' = [cpc EXCEPT ![t] = "sc_except"]
                   /\ sockets' = touched
              ELSE /\ cur' = [cur EXCEPT ![t].resp = r,
                                         ![t].replyTo = NextReply(sockets[h]),
                                         ![t].envOk =
                                            /\ @
                                            /\ NextReply(sockets[h]) # NoRequest
                                            /\ IsSuccessReply(r)]
                   /\ cpc' = [cpc EXCEPT ![t] = "clear"]
                   /\ sockets' = [touched EXCEPT ![h].reads = @ + 1]
    /\ UNCHANGED <<gimp_connection, sock, attempts, callsIssued, callsDone,
                   tool, issued, last>>

\* call_api, lines 77-78: `except Exception as e: return f"Error: {e}"`;
\* an exception the clause does not catch escapes call_api.
Caught(c) ==
    IF CallApiCatches(c.exc.cls)
    THEN [c EXCEPT !.kind = "return", !.val = ErrorPrefix \o c.exc.msg]
    ELSE [c EXCEPT !.kind = "raise", !.val = c.exc.msg]

\* call_api, lines 73-78: turn the decoded reply into the returned string.
AfterReply(c) ==
    LET out == CallApiBody(c.reply) IN
    IF out.ok
    THEN [c EXCEPT !.stage = ReplyStage(c.reply), !.kind = "return",
                   !.val = out.val]
    ELSE Caught([c EXCEPT !.stage = "shape", !.exc = Exc(out.cls, out.msg)])

\* GimpConnection.send_command, lines 37-38: self.sock = None, then
\* json.loads(response.decode()).  A reply that decodes is returned to
\* call_api, which runs lines 73-78 on it (they touch no shared state).
Clear(t) ==
    /\ cpc[t] = "clear"
    /\ sockets' = Drop(sock[cur[t].self])
    /\ sock' = [sock EXCEPT ![cur[t].self] = None]
    /\ LET d == DecodeReply(cur[t].resp) IN
       IF d.ok
       THEN FinishCall(t, AfterReply([cur[t] EXCEPT !.hasReply = TRUE,
                                                    !.reply = d.val,
                                                    !.resp = NoBytes]))
       ELSE /\ cur' = [cur EXCEPT ![t].stage = "decode",
                                  ![t].resp = NoBytes,
                                  ![t].exc = Exc(d.cls, d.msg)]
            /\ cpc' = [cpc EXCEPT ![t] = "sc_except"]
            /\ UNCHANGED <<callsDone, tool, issued, last>>
    /\ UNCHANGED <<gimp_connection, attempts, callsIssued>>

\* GimpConnection.send_command, lines 39-42: discard the socket and raise
\* Exception("Error communicating with GIMP: <e>").
ScExcept(t) ==
    /\ cpc[t] = "sc_except"
    /\ LET h == sock[cur[t].self] IN
       /\ sock' = [sock EXCEPT ![cur[t].self] = SockAfterError(h)]
       /\ sockets' = IF SockAfterError(h) = h THEN sockets ELSE Drop(h)
    /\ cur' = [cur EXCEPT ![t].exc = Exc("Exception", CommPrefix \o @.msg)]
    /\ cpc' = [cpc EXCEPT ![t] = SendCommandExceptTarget]
    /\ UNCHANGED <<gimp_connection, attempts, callsIssued, callsDone, tool,
                   issued, last>>

\* call_api, lines 77-78, reached by an exception of get_gimp_connection or
\* of send_command.
CallApiExcept(t) ==
    /\ cpc[t] = "cx_except"
    /\ FinishCall(t, Caught(cur[t]))
    /\ UNCHANGED <<gimp_connection, sock, sockets, attempts, callsIssued>>

Step(t) ==
    \/ StartTool(t)
    \/ IssueCall(t)
    \/ GetGimpConnection(t)
    \/ GcCreate(t)
    \/ GcConnect(t)
    \/ GcReturn(t)
    \/ Connect(t)
    \/ Connect2(t)
    \/ ScEntry(t)
    \/ Send(t)
    \/ Recv(t)
    \/ Clear(t)
    \/ ScExcept(t)
    \/ CallApiExcept(t)

Next == \E t \in SeqThreads : Step(t)

Spec == Init /\ [][Next]_vars

\* The most call_api calls made in a run of the concurrent host.
MaxConcCalls == 2

\* The call_api calls the invocation on thread u can still start.
Pending(u) ==
    IF tool[u].name = "none" THEN 0
    ELSE ToolMaxCalls(tool[u].name) - Len(issued[u])
           - (IF cpc[u] = "idle" THEN 0 ELSE 1)

\* The framework invokes a tool on a thread that runs none, whatever the
\* other thread is doing.
StartToolConc(t) ==
    /\ tool[t].name = "none"
    /\ \E tl \in ToolInputs :
         /\ \A u \in Threads \ {t} :
              callsIssued + Pending(u) + ToolMaxCalls(tl.name) <= MaxConcCalls
         /\ tool' = [tool EXCEPT ![t] = tl]
    /\ last' = NoLast
    /\ UNCHANGED <<gimp_connection, sock, sockets, attempts, callsIssued,
                   callsDone, issued, cpc, cur>>

StepConc(t) ==
    \/ StartToolConc(t)
    \/ IssueCall(t)
    \/ GetGimpConnection(t)
    \/ GcCreate(t)
    \/ GcConnect(t)
    \/ GcReturn(t)
    \/ Connect(t)
    \/ Connect2(t)
    \/ ScEntry(t)
    \/ Send(t)
    \/ Recv(t)
    \/ Clear(t)
    \/ ScExcept(t)
    \/ CallApiExcept(t)

\* A host that dispatches tool invocations concurrently: the steps of the
\* two threads interleave at statement granularity.
NextConc == \E t \in Threads : StepConc(t)

SpecConc == Init /\ [][NextConc]_vars

(* --------------------- after the failures have stopped ----------------- *)

\* A socket whose connect was refused and that self.sock still holds; it
\* was opened by a call made before the failures stopped (call 0).
StaleSocket ==
    [state |-> "failed", opener |-> 0, users |-> {}, reqs |-> <<>>, reads |-> 0]

\* The connection states the sequential host can be in between two calls:
\* no connection yet, a connection without a socket, a connection holding
\* the socket of a refused connect.  Calls and connect attempts are counted
\* from here on.
InitRecovery ==
    /\ \/ gimp_connection = None /\ sock = [c \in Threads |-> None]
          /\ sockets = <<>>
       \/ gimp_connection = 1 /\ sock = [c \in Threads |-> None]
          /\ sockets = <<>>
       \/ gimp_connection = 1 /\ sock = [c \in Threads |-> IF c = 1 THEN 1 ELSE None]
          /\ sockets = <<StaleSocket>>
    /\ attempts = 0
    /\ callsIssued = 0
    /\ callsDone = 0
    /\ tool = [t \in Threads |-> NoTool]
    /\ issued = [t \in Threads |-> <<>>]
    /\ cpc = [t \in Threads |-> "idle"]
    /\ cur = [t \in Threads |-> NoCall]
    /\ last = NoLast

\* The steps of a thread when every connect and send gets through and the
\* remote answers every request with a well-formed success reply.
StepRecovery(t) ==
    \/ StartTool(t)
    \/ IssueCall(t)
    \/ GetGimpConnection(t)
    \/ GcCreate(t)
    \/ GcConnect(t)
    \/ GcReturn(t)
    \/ Connect(t) /\ cur'[t].envOk
    \/ Connect2(t) /\ cur'[t].envOk
    \/ ScEntry(t)
    \/ Send(t) /\ cur'[t].envOk
    \/ Recv(t) /\ cur'[t].envOk
    \/ Clear(t)
    \/ ScExcept(t)
    \/ CallApiExcept(t)

NextRecovery == \E t \in SeqThreads : StepRecovery(t)

SpecRecovery == InitRecovery /\ [][NextRecovery]_vars

(* ---- the three calls of get_image_info, in any order or concurrently --- *)

\* The state get_image_info is in after "get image by id" succeeded: the
\* connection exists and its socket has been discarded.
InitInfo ==
    /\ gimp_connection = 1
    /\ sock = [c \in Threads |-> None]
    /\ sockets = <<ClosedSocket>>
    /\ attempts = 1
    /\ callsIssued = 1
    /\ callsDone = 1
    /\ tool = [t \in Threads |-> NoTool]
    /\ issued = [t \in Threads |-> <<>>]
    /\ cpc = [t \in Threads |-> "idle"]
    /\ cur = [t \in Threads |-> NoCall]
    /\ last = NoLast

\* A remote whose reply depends only on the request: an 800 x 800 image
\* with the one layer 0.
Answer(api_path) ==
    CASE api_path = "Gimp.Image.get_width" -> JInt(800)
      [] api_path = "Gimp.Image.get_height" -> JInt(800)
      [] api_path = "Gimp.Image.get_layers" -> JList(<< JInt(0) >>)
      [] OTHER -> JNull

InfoPaths == { ImageInfoPaths[i] : i \in 2..4 }

Range(f) == { f[i] : i \in DOMAIN f }

\* The orders in which some of the three calls can be made.
InfoPlans ==
    { p \in UNION { [1..n -> InfoPaths] : n \in 1..3 } :
        Cardinality(Range(p)) = Len(p) }

\* The calls the invocation on thread u has still to start.
InfoPending(u) ==
    Len(tool[u].paths) - Len(issued[u]) - (IF cpc[u] = "idle" THEN 0 ELSE 1)

\* The calls already given to a thread other than t.
InfoTaken(t) ==
    Range(last.paths) \cup UNION { Range(tool[u].paths) : u \in Threads \ {t} }

\* A thread takes some of the three calls, in some order; the thread that
\* starts second takes the rest.
StartToolInfo(t) ==
    /\ tool[t].name = "none"
    /\ \E p \in InfoPlans :
         /\ Range(p) \cap InfoTaken(t) = {}
         /\ InfoTaken(t) # {} => Range(p) \cup InfoTaken(t) = InfoPaths
         /\ \A u \in Threads \ {t} :
              callsIssued + InfoPending(u) + Len(p) <= Len(ImageInfoPaths)
         /\ tool' = [tool EXCEPT ![t] =
                       [NoTool EXCEPT !.name = "info_calls", !.image_id = 1,
                                      !.paths = p]]
    /\ UNCHANGED <<gimp_connection, sock, sockets, attempts, callsIssued,
                   callsDone, issued, cpc, cur, last>>

\* The environment has not failed call c, and the bytes it received are the
\* remote's answer to the request they reply to.
Healthy(c) ==
    /\ c.envOk
    /\ c.resp # NoBytes =>
         c.resp.value = SuccessReply(Answer(c.replyTo.api_path))

\* The steps of a thread when every connect and send gets through and the
\* remote's reply depends only on the request.  The connection exists, so
\* lines 50-51 are not reached.
StepInfo(t) ==
    \/ StartToolInfo(t)
    \/ IssueCall(t)
    \/ GetGimpConnection(t)
    \/ GcReturn(t)
    \/ Connect(t) /\ Healthy(cur'[t])
    \/ Connect2(t) /\ Healthy(cur'[t])
    \/ ScEntry(t)
    \/ Send(t) /\ Healthy(cur'[t])
    \/ Recv(t) /\ Healthy(cur'[t])
    \/ Clear(t)
    \/ ScExcept(t)
    \/ CallApiExcept(t)

\* The three calls shared by two threads.
NextInfo == \E t \in Threads : StepInfo(t)

SpecInfo == InitInfo /\ [][NextInfo]_vars

(* ------------------------------ properties ----------------------------- *)

\* P holds of every call_api invocation that has finished and is still on
\* record: those of the tool invocations in progress and of the last one.
AllDone(P(_)) ==
    /\ \A t \in Threads : \A i \in DOMAIN issued[t] : P(issued[t][i])
    /\ \A i \in DOMAIN last.issued : P(last.issued[i])

\* P holds of the calls of every tool invocation on record, given the tool
\* record, the calls and whether the invocation has finished.
AllRuns(P(_, _, _)) ==
    /\ \A t \in Threads : tool[t].name # "none" => P(tool[t], issued[t], FALSE)
    /\ last.name # "none" => P(last, last.issued, TRUE)

IsErrorString(s) == StartsWith(s, ErrorPrefix)

HasField(v, k) == GetItem(v, k).ok

Field(v, k) == GetItem(v, k).val

Chained == {"get_image_info", "apply_gaussian_blur"}

\* C1: call_api never raises to its caller and always returns a string,
\* whatever the connection state and the transport outcome.
C1_CallApiAlwaysReturnsString ==
    AllDone(LAMBDA c : c.kind = "return" /\ c.val \in Seq(STRING))

\* C1 witness: one tool invocation whose calls ended at the send, at the
\* decode and at a reply without `status`, each returning an error string.
C1_Witness ==
    /\ last.name = "get_image_info"
    /\ Len(last.issued) = 4
    /\ last.issued[2].stage = "send"
    /\ last.issued[3].stage = "decode"
    /\ last.issued[4].stage = "shape"
    /\ \A i \in 2..4 : last.issued[i].kind = "return"

\* C2: every tool returns a string and lets no exception escape, for every
\* remote reply.
C2_ToolsNeverRaise ==
    last.name # "none" => last.kind = "return"

\* C3: every call_api invocation invokes send_command exactly once.
C3_ExactlyOneSendCommand ==
    AllDone(LAMBDA c : c.scCalls = 1)

\* C3 (amended): every call_api invocation invokes send_command at most
\* once: exactly once, except that it invokes it zero times when it is the
\* invocation that creates the global connection and the connect made by
\* get_gimp_connection fails.
C3_AtMostOneSendCommand ==
    /\ \A t \in Threads : cur[t].scCalls <= 1
    /\ AllDone(LAMBDA c :
         /\ c.scCalls <= 1
         /\ c.scCalls = 0 <=> (c.created /\ c.stage = "connect"))

\* C3 witness: a finished call_api that never reached send_command.
C3_Witness ==
    /\ last.name = "call_api"
    /\ last.issued[1].scCalls = 0
    /\ last.issued[1].created
    /\ IsErrorString(last.val)

\* C4: the output of call_api is the JSON text of `result` when the reply's
\* status is "success", or "Error: " and the JSON text of `error` when it is
\* anything else; never neither.
C4_TwoOutputForms ==
    AllDone(LAMBDA c :
      \/ /\ c.hasReply /\ HasField(c.reply, K_status)
         /\ Field(c.reply, K_status) = JStr(S_success)
         /\ HasField(c.reply, K_result)
         /\ c.val = json_dumps(Field(c.reply, K_result))
      \/ /\ c.hasReply /\ HasField(c.reply, K_status)
         /\ Field(c.reply, K_status) # JStr(S_success)
         /\ HasField(c.reply, K_error)
         /\ c.val = ErrorPrefix \o json_dumps(Field(c.reply, K_error)))

\* C4 (amended): when send_command returns a mapping with `status` and the
\* field the status selects, the output is the JSON text of `result` for
\* "success" (and is no error string) and "Error: " and the JSON text of
\* `error` otherwise; in every other case the output is "Error: " followed
\* by the text of the exception.
C4_OutputForms ==
    AllDone(LAMBDA c :
      /\ c.kind = "return"
      /\ IF /\ c.hasReply /\ HasField(c.reply, K_status)
            /\ Field(c.reply, K_status) = JStr(S_success)
            /\ HasField(c.reply, K_result)
         THEN /\ c.val = json_dumps(Field(c.reply, K_result))
              /\ ~IsErrorString(c.val)
         ELSE IF /\ c.hasReply /\ HasField(c.reply, K_status)
                 /\ Field(c.reply, K_status) # JStr(S_success)
                 /\ HasField(c.reply, K_error)
         THEN c.val = ErrorPrefix \o json_dumps(Field(c.reply, K_error))
         ELSE /\ c.exc.cls # ""
              /\ c.val = ErrorPrefix \o c.exc.msg)

\* C4 witness: one invocation with a success output, a remote-error output
\* and an exception output.
C4_Witness ==
    /\ last.name = "get_image_info"
    /\ Len(last.issued) = 4
    /\ last.issued[1].stage = "success"
    /\ last.issued[2].stage = "remote_error"
    /\ last.issued[3].stage = "success"
    /\ last.issued[4].stage = "recv"

\* C5: whenever no call is in progress, as many fresh connects have been
\* attempted as exchanges were made.
C5_FreshConnectPerExchange ==
    (\A t \in Threads : cpc[t] = "idle") => attempts = callsDone

\* C6: a call_api invocation makes at most one connect attempt and at most
\* one send, and one that fails at connect, send, receive or decode returns
\* one error string.
C6_NoRetry ==
    /\ \A t \in Threads : cur[t].connects <= 1 /\ cur[t].sends <= 1
    /\ AllDone(LAMBDA c :
         /\ c.connects <= 1
         /\ c.sends <= 1
         /\ c.stage \in {"connect", "send", "recv", "decode"} =>
              c.kind = "return" /\ IsErrorString(c.val))

\* C6 witness: a call that connected, failed to send, and stopped there.
C6_Witness ==
    /\ last.name = "get_images"
    /\ last.issued[1].stage = "send"
    /\ last.issued[1].connects = 1
    /\ last.issued[1].sends = 1
    /\ IsErrorString(last.val)

\* C7: no socket is sent on or read from by more than one call_api
\* invocation, and every invocation sends on a socket it opened itself.
C7_OneExchangePerSocket ==
    /\ \A h \in DOMAIN sockets :
         /\ Cardinality(sockets[h].users) <= 1
         /\ sockets[h].users \subseteq {sockets[h].opener}
    /\ \A t \in Threads : cur[t].used # None => cur[t].used = cur[t].opened
    /\ AllDone(LAMBDA c : c.used # None => c.used = c.opened)

\* C8: when the first call of get_image_info or apply_gaussian_blur fails,
\* the tool returns that call's string unchanged and made one call.
C8_FirstCallFailure ==
    AllRuns(LAMBDA tl, iss, finished :
      (tl.name \in Chained /\ Len(iss) >= 1 /\ iss[1].stage # "success") =>
        /\ Len(iss) = 1
        /\ ToolNext(tl, iss) = Return(iss[1].val)
        /\ finished => (last.kind = "return" /\ last.val = iss[1].val))

\* C8 witness: apply_gaussian_blur finished after a failed first call.
C8_Witness ==
    /\ last.name = "apply_gaussian_blur"
    /\ last.issued[1].stage \in {"recv", "remote_error"}
    /\ last.val = last.issued[1].val

\* C9: in every convenience tool no call follows a call whose string
\* carries the failure marker, and the tool returns that string.
C9_FailFastEverywhere ==
    AllRuns(LAMBDA tl, iss, finished :
      tl.name \in Chained =>
        \A i \in DOMAIN iss :
          (HasFailureMarker(iss[i].val)
             /\ ~(tl.name = "apply_gaussian_blur" /\ i = 4)) =>
            /\ i = Len(iss)
            /\ finished => (last.kind = "return" /\ last.val = iss[i].val))

BlurPaths ==
    <<"Gimp.Image.get_by_id", "Gimp.Image.get_active_layer",
      "Gimp.get_pdb.run_procedure", "Gimp.displays_flush">>

\* C10: the calls of apply_gaussian_blur are a prefix of the four-call
\* recipe, cut right after the first call that returns an error, and
\* run_procedure gets ["plug-in-gauss", image_id, drawable_id, radius,
\* radius, 0] with the caller's image_id and the resolved drawable's id.
C10_BlurRecipe ==
    AllRuns(LAMBDA tl, iss, finished :
      tl.name = "apply_gaussian_blur" =>
        /\ Len(iss) <= 4
        /\ \A i \in DOMAIN iss : iss[i].api_path = BlurPaths[i]
        /\ \A i \in DOMAIN iss : i < Len(iss) => ~IsErrorString(iss[i].val)
        /\ finished => (Len(iss) = 4 \/ IsErrorString(iss[Len(iss)].val))
        /\ Len(iss) >= 3 =>
             iss[3].args =
               <<JStr(S_plug_in_gauss), JInt(tl.image_id),
                 Field(Field(iss[2].reply, K_result), K_id),
                 JFloat(tl.radius), JFloat(tl.radius), JInt(0)>>)

\* C11: a get_image_info whose "get image by id" succeeded issues exactly
\* three further calls, get_width, get_height and get_layers, each with the
\* identifier of the first reply as its single argument, and returns the
\* encoding of {"width": w, "height": h, "layers": l} holding the three
\* strings call_api returned.
C11_ImageInfoComposition ==
    AllRuns(LAMBDA tl, iss, finished :
      (tl.name = "get_image_info" /\ finished /\ iss[1].stage = "success") =>
        /\ Len(iss) = 4
        /\ \A i \in 2..4 :
             /\ iss[i].api_path = ImageInfoPaths[i]
             /\ iss[i].args = <<Field(Field(iss[1].reply, K_result), K_id)>>
        /\ last.kind = "return"
        /\ last.val = json_dumps(JObj(<< <<K_width, JStr(iss[2].val)>>,
                                        <<K_height, JStr(iss[3].val)>>,
                                        <<K_layers, JStr(iss[4].val)>> >>)))

\* C12: whenever send_command has returned or raised, on success, on a
\* send, receive or decode failure, or on the failure of the connect it
\* made itself, self.sock is None.
C12_SocketNoneAfterSendCommand ==
    /\ \A t \in Threads :
         (cpc[t] = "cx_except" /\ cur[t].scCalls > 0) =>
           sock[cur[t].self] = None
    /\ \A t \in Threads :
         (cpc[t] = "idle" /\ issued[t] # <<>>
            /\ issued[t][Len(issued[t])].scCalls > 0) =>
           sock[issued[t][Len(issued[t])].self] = None

\* C13: a connect attempt that failed left the connection as it was: no
\* socket is stored in self.sock.
C13_FailedConnectStoresNothing ==
    \A t \in Threads :
      (cpc[t] = "cx_except" /\ cur[t].stage = "connect") =>
        sock[cur[t].self] = None

\* C14: a convenience tool returns before its last call only when the call
\* it stopped at actually failed; a success reply, whatever its payload,
\* lets the tool go on.
C14_ShortCircuitOnlyOnFailure ==
    AllRuns(LAMBDA tl, iss, finished :
      (tl.name \in Chained /\ finished /\ last.kind = "return"
         /\ Len(iss) < 4) =>
        iss[Len(iss)].stage # "success")

\* C15: a reply that is not valid UTF-8 JSON, or that decodes to a value
\* that is not a mapping with a `status` key, makes call_api return a
\* string beginning with "Error: ", never a success payload.
C15_MalformedReplyGivesError ==
    AllDone(LAMBDA c :
      (c.stage = "decode"
         \/ (c.hasReply /\ ~(Tag(c.reply) = "obj" /\ HasField(c.reply, K_status)))) =>
        /\ c.kind = "return"
        /\ IsErrorString(c.val)
        /\ c.stage # "success")

\* A finished call_api whose reply was a mapping without `status`.
C15_Witness ==
    /\ last.name = "call_api"
    /\ last.issued[1].hasReply
    /\ Tag(last.issued[1].reply) = "obj"
    /\ ~HasField(last.issued[1].reply, K_status)
    /\ last.val = ErrorPrefix \o KeyErrorText(K_status)

\* C16: an apply_gaussian_blur whose first three calls returned strings
\* that are not error strings returns "Applied Gaussian blur successfully",
\* whatever the flush call returned.
C16_BlurIgnoresFlush ==
    AllRuns(LAMBDA tl, iss, finished :
      (tl.name = "apply_gaussian_blur" /\ finished /\ Len(iss) >= 3
         /\ \A i \in 1..3 : ~IsErrorString(iss[i].val)) =>
        /\ last.kind = "return"
        /\ last.val = BlurSuccessMessage)

\* C17: also under concurrent dispatch no socket is sent on or read from by
\* more than one call_api invocation, the stored handle is never one that
\* has been discarded, and every invocation reads the reply to its own
\* request.
C17_NoSharedSocket ==
    /\ \A h \in DOMAIN sockets : Cardinality(sockets[h].users) <= 1
    /\ \A c \in Threads : sock[c] # None => sockets[sock[c]].state # "closed"
    /\ \A t \in Threads : cur[t].replyTo.id \in {None, cur[t].id}
    /\ AllDone(LAMBDA c : c.replyTo.id \in {None, c.id})

\* C18: with a remote whose reply depends only on the request, each of the
\* width, height and layers calls returns what it returns in the sequential
\* run, the encoding of the remote's answer to its request, in whatever
\* order the calls are made and also when two threads make them
\* concurrently through the shared connection.
C18_InfoCallsIndependent ==
    AllDone(LAMBDA c :
      c.api_path \in InfoPaths =>
        c.kind = "return" /\ c.val = json_dumps(Answer(c.api_path)))

\* C19: once every connect succeeds and the remote answers every request
\* with a well-formed success reply, at most the first call_api returns an
\* error string; every later one returns the encoded result of its reply.
C19_BoundedRecovery ==
    AllDone(LAMBDA c :
      c.id >= 2 =>
        /\ c.kind = "return"
        /\ c.stage = "success"
        /\ c.val = json_dumps(Field(c.reply, K_result)))

\* The first call ran into the socket of a refused connect and made no
\* connect attempt; the second call connected and succeeded.
C19_Witness ==
    /\ callsDone = 2
    /\ attempts = 1
    /\ last.name # "none"
    /\ last.issued[Len(last.issued)].id = 2
    /\ last.issued[Len(last.issued)].stage = "success"

\* Between two calls the sequential host is in one of the connection states
\* of InitRecovery.
QuiescentConnectionStates ==
    (\A t \in Threads : cpc[t] = "idle") =>
      /\ gimp_connection \in {None, 1}
      /\ gimp_connection = None => sock[1] = None
      /\ sock[1] # None => sockets[sock[1]].state = "failed"

====
